---- MODULE Spec2Model ----
(***************************************************************************)
(* PushButton (src/PushButton.cpp): the debouncing and gesture state       *)
(* machine of one button, driven by a polling loop.                        *)
(*                                                                         *)
(* The program's fields keep their names without the leading underscore.   *)
(* millis() is the variable clock, a wrapping counter; digitalRead() is an *)
(* input of update().  One action is one whole call.  The calls follow the *)
(* library's protocol (src/PushButton.cpp:20-24): begin() comes before     *)
(* update() and the accessors, and may be called again at any time.        *)
(*                                                                         *)
(* The variables after clock are history variables: they record what has   *)
(* happened (true elapsed time, which calls returned true) and no action   *)
(* of the program reads them.                                              *)
(*                                                                         *)
(* PushButtonGroup (same file) is a table of references to buttons, kept   *)
(* in storage from realloc().  Its calls are the actions of a second       *)
(* specification, SpecGroup, in which a member's update() is an input: the *)
(* value it returns.                                                       *)
(***************************************************************************)
EXTENDS Integers, Naturals, FiniteSets, Sequences, TLC

VARIABLES
    invert, state, pState, now, prev,
    longState, longClick, doubleClick,
    isJustPressed, isJustReleased,
    time, timeDouble,
    debounceDelay, longDelay, doubleDelay,
    begun, clock,
    sinceFlip, sinceRelease, relKind, relDouble, relLong, relFresh,
    pressFires, relFires, relBy, longCount, latchLevel, accepted,
    buttons, table, buttonsSize, alive,
    wild, polled, results, groupRet

button == <<invert, state, pState, now, prev, longState, longClick, doubleClick,
            isJustPressed, isJustReleased, time, timeDouble>>
delays == <<debounceDelay, longDelay, doubleDelay>>
history == <<sinceFlip, sinceRelease, relKind, relDouble, relLong, relFresh,
             pressFires, relFires, relBy, longCount, latchLevel, accepted>>
vars == <<button, delays, begun, clock, history>>

\* PushButtonGroup: the pointer buttons, the storage it points at, buttonsSize,
\* and whether the destructor has run
group == <<buttons, table, buttonsSize, alive>>
\* history of the group: has a call touched storage it does not own; the slots
\* the last update() polled, what the members returned, what update() returned
groupHistory == <<wild, polled, results, groupRet>>
gvars == <<group, groupHistory>>

(***************************************************************************)
(* Bounds.  The millisecond counter is 2^32 wide in the program; the model *)
(* keeps its modular arithmetic on a short period.  The constructor's      *)
(* delays (5, 1000 and 300 ms, src/PushButton.cpp:47-49) are scaled to the *)
(* short period, in the same order: debounce < double < long.              *)
(* Two releases are at least 2 * (debounceDelay + 1) ms apart, so a double *)
(* click needs doubleDelay above that: it happens with debounceDelay 0.    *)
(***************************************************************************)
ClockMod == 6
DebounceDefault == 1
DoubleDefault == 3
LongDefault == 4

Clock == 0 .. (ClockMod - 1)
\* the values the setters are called with: no debouncing, a double-click
\* window of one millisecond, the long delay set again to its default
DebounceValues == {0}
DoubleValues == {1}
LongValues == {LongDefault}
\* history counters of elapsed time stop at ClockMod: "one full period or more"
MaxElapsed == ClockMod

\* begin()'s mode argument
Modes == {"INPUT", "INPUT_PULLUP", "PULLUP"}

(***************************************************************************)
(* Arithmetic of the millisecond counter: millis() - t, modulo the period. *)
(***************************************************************************)
Elapsed(t) == (clock - t + ClockMod) % ClockMod

Xor(a, b) == a # b

\* isPressed(): _state ^ _invert
isPressed == Xor(state, invert)

\* isReleased() with the negation applied to both operands
isReleasedBothNegated == Xor(~state, ~invert)

\* isReleased(): !_state ^ _invert, the negation applies to _state alone
isReleased == Xor(~state, invert)

\* isLongPressed()
isLongPressed == Xor(state, invert) /\ longState

\* isLongReleased()
isLongReleased == Xor(~state, invert) /\ longState

(***************************************************************************)
(* The constructor PushButton::PushButton() sets the three delays and      *)
(* _time = millis().  It sets nothing else: _timeDouble and _doubleClick   *)
(* are not written by begin() either, so update() and the accessors read   *)
(* whatever the storage held, any value.  The fields begin() writes are    *)
(* never read before begin() under the protocol; they start at FALSE.      *)
(***************************************************************************)
GroupInit ==
    /\ buttons = "NULL"
    /\ table = << >>
    /\ buttonsSize = 0
    /\ alive = TRUE
    /\ wild = FALSE
    /\ polled = << >>
    /\ results = << >>
    /\ groupRet = FALSE

Init ==
    /\ GroupInit
    /\ clock \in Clock
    /\ time = clock
    /\ debounceDelay = DebounceDefault
    /\ longDelay = LongDefault
    /\ doubleDelay = DoubleDefault
    /\ timeDouble \in Clock
    /\ doubleClick \in BOOLEAN
    /\ invert = FALSE /\ state = FALSE /\ pState = FALSE
    /\ now = FALSE /\ prev = FALSE
    /\ longState = FALSE /\ longClick = FALSE
    /\ isJustPressed = FALSE /\ isJustReleased = FALSE
    /\ begun = FALSE
    /\ sinceFlip = 0 /\ sinceRelease = 0
    /\ relKind = "none" /\ relDouble = FALSE /\ relLong = FALSE /\ relFresh = FALSE
    /\ pressFires = 0 /\ relFires = 0 /\ relBy = ""
    /\ longCount = 0 /\ latchLevel = FALSE
    /\ accepted = FALSE

\* a history counter of elapsed milliseconds, which stops at MaxElapsed
Later(n) == IF n < MaxElapsed THEN n + 1 ELSE MaxElapsed

\* a history counter of calls that returned true, which stops at 2
Once(n) == IF n < 2 THEN n + 1 ELSE 2

(***************************************************************************)
(* One millisecond passes: millis() moves on and wraps.                    *)
(***************************************************************************)
Tick ==
    /\ clock' = (clock + 1) % ClockMod
    /\ sinceFlip' = Later(sinceFlip)
    /\ sinceRelease' = IF relKind = "none" THEN 0 ELSE Later(sinceRelease)
    /\ UNCHANGED <<button, delays, begun, relKind, relDouble, relLong, relFresh,
                   pressFires, relFires, relBy, longCount, latchLevel, accepted>>

(***************************************************************************)
(* begin(pin, mode)                                                        *)
(***************************************************************************)
\* the polarity begin() derives from the mode
BeginInvert(mode) == mode = "INPUT_PULLUP" \/ mode = "PULLUP"

\* begin() leaving the guards armed
BeginGuardArmed == FALSE

\* the value begin() gives both consumption guards
BeginGuard == TRUE

Begin(mode) ==
    /\ invert' = BeginInvert(mode)
    /\ state' = BeginInvert(mode)
    /\ pState' = BeginInvert(mode)
    /\ now' = BeginInvert(mode)
    /\ prev' = BeginInvert(mode)
    /\ longState' = FALSE
    /\ longClick' = FALSE
    /\ isJustPressed' = BeginGuard
    /\ isJustReleased' = BeginGuard
    /\ begun' = TRUE
    /\ relFresh' = FALSE
    /\ longCount' = 0
    /\ latchLevel' = FALSE
    /\ accepted' = FALSE
    /\ relKind' = IF relKind = "none" THEN "none" ELSE "over"
    /\ relDouble' = FALSE
    /\ relLong' = FALSE
    /\ UNCHANGED <<doubleClick, time, timeDouble, delays, clock,
                   sinceFlip, sinceRelease, pressFires, relFires, relBy>>

(***************************************************************************)
(* setDebounceDelay, setLongDelay, setDoubleDelay                          *)
(***************************************************************************)
SetDebounceDelay(d) ==
    /\ debounceDelay' = d
    /\ UNCHANGED <<button, longDelay, doubleDelay, begun, clock,
                   sinceFlip, sinceRelease, relKind, relDouble, relLong, relFresh,
                   pressFires, relFires, relBy, longCount, latchLevel, accepted>>

SetLongDelay(d) ==
    /\ longDelay' = d
    /\ UNCHANGED <<button, debounceDelay, doubleDelay, begun, clock,
                   sinceFlip, sinceRelease, relKind, relDouble, relLong, relFresh,
                   pressFires, relFires, relBy, longCount, latchLevel, accepted>>

SetDoubleDelay(d) ==
    /\ doubleDelay' = d
    /\ UNCHANGED <<button, debounceDelay, longDelay, begun, clock,
                   sinceFlip, sinceRelease, relKind, relDouble, relLong, relFresh,
                   pressFires, relFires, relBy, longCount, latchLevel, accepted>>

(***************************************************************************)
(* update(), with r the level digitalRead(_pin) returns in this call.      *)
(* The four branches are the four returns of the function.                 *)
(***************************************************************************)
\* if(_now != _prev), after _prev = _now; _now = r
RawChanged(r) == r # now

\* the debounce test as an ordered comparison of the two instants
DebounceExpiredOrdered == clock > time + debounceDelay

\* the debounce test with >= in place of >
DebounceExpiredOrEqual == Elapsed(time) >= debounceDelay

\* (millis() - _time) > _debounceDelay
DebounceExpired == Elapsed(time) > debounceDelay

\* the acceptance test without _state != _now
AcceptCondAnyLevel(r) == DebounceExpired

\* (_state != _now) && ((millis() - _time) > _debounceDelay)
AcceptCond(r) == state # r /\ DebounceExpired

\* the long test with >= in place of >
LongCondOrEqual == ~longState /\ Elapsed(time) >= longDelay

\* the long test without !_longState
LongCondRepeated == Elapsed(time) > longDelay

\* !_longState && ((millis() - _time) > _longDelay)
LongCond == ~longState /\ Elapsed(time) > longDelay

\* the double-click test with <= in place of <
DoubleGapOrEqual == Elapsed(timeDouble) <= doubleDelay

\* (millis() - _timeDouble) < _doubleDelay, in update()
DoubleGap == Elapsed(timeDouble) < doubleDelay

\* what the history records of an accepted release: how long after the
\* previous accepted release it came, in true elapsed time
GapKind ==
    IF relKind = "none" THEN "first"
    ELSE IF sinceRelease < doubleDelay THEN "short"
    ELSE IF sinceRelease < MaxElapsed THEN "long"
    ELSE "wrapped"

\* the return statement update() reaches
UpdateBranch(r) ==
    IF RawChanged(r) THEN "flip"
    ELSE IF AcceptCond(r) THEN "accept"
    ELSE IF LongCond THEN "long"
    ELSE "idle"

\* the value update() returns from the branch b
UpdateReturn(b) == b \in {"accept", "long"}

UpdateFlip(r) ==
    /\ UpdateBranch(r) = "flip"
    /\ prev' = now
    /\ now' = r
    /\ time' = clock
    /\ sinceFlip' = 0
    /\ UNCHANGED <<invert, state, pState, longState, longClick, doubleClick,
                   isJustPressed, isJustReleased, timeDouble, delays, begun, clock,
                   sinceRelease, relKind, relDouble, relLong, relFresh,
                   pressFires, relFires, relBy, longCount, latchLevel, accepted>>

UpdateAccept(r) ==
    /\ UpdateBranch(r) = "accept"
    /\ prev' = now
    /\ now' = r
    /\ pState' = state
    /\ state' = r
    /\ longState' = FALSE
    /\ isJustPressed' = FALSE
    /\ isJustReleased' = FALSE
    /\ longClick' = IF Xor(r, invert) THEN FALSE ELSE longClick
    /\ doubleClick' = IF Xor(~r, invert) THEN DoubleGap ELSE doubleClick
    /\ timeDouble' = IF Xor(~r, invert) THEN clock ELSE timeDouble
    /\ accepted' = TRUE
    /\ longCount' = 0
    /\ latchLevel' = FALSE
    /\ relKind' = IF Xor(~r, invert) THEN GapKind
                  ELSE IF relKind = "none" THEN "none" ELSE "over"
    /\ sinceRelease' = IF Xor(~r, invert) THEN 0 ELSE sinceRelease
    /\ relDouble' = IF Xor(~r, invert) THEN doubleClick' ELSE FALSE
    /\ relLong' = IF Xor(r, invert) THEN FALSE ELSE relLong
    /\ relFresh' = Xor(~r, invert)
    /\ pressFires' = 0
    /\ relFires' = 0
    /\ relBy' = ""
    /\ UNCHANGED <<invert, time, delays, begun, clock, sinceFlip>>

UpdateLong(r) ==
    /\ UpdateBranch(r) = "long"
    /\ prev' = now
    /\ now' = r
    /\ longState' = TRUE
    /\ longClick' = IF isPressed THEN TRUE ELSE longClick
    /\ longCount' = Once(longCount)
    /\ latchLevel' = state
    /\ relLong' = IF isPressed THEN TRUE ELSE relLong
    /\ UNCHANGED <<invert, state, pState, doubleClick, isJustPressed, isJustReleased,
                   time, timeDouble, delays, begun, clock,
                   sinceFlip, sinceRelease, relKind, relDouble, relFresh,
                   pressFires, relFires, relBy, accepted>>

UpdateIdle(r) ==
    /\ UpdateBranch(r) = "idle"
    /\ prev' = now
    /\ now' = r
    /\ UNCHANGED <<invert, state, pState, longState, longClick, doubleClick,
                   isJustPressed, isJustReleased, time, timeDouble, delays, begun, clock,
                   sinceFlip, sinceRelease, relKind, relDouble, relLong, relFresh,
                   pressFires, relFires, relBy, longCount, latchLevel, accepted>>

Update(r) ==
    \/ UpdateFlip(r)
    \/ UpdateAccept(r)
    \/ UpdateLong(r)
    \/ UpdateIdle(r)

(***************************************************************************)
(* The one-shot accessors.  XRet is the value the call returns in the      *)
(* current state; a call that returns false changes nothing.               *)
(***************************************************************************)
\* justPressed(): isPressed() && !_isJustPressed
JustPressedRet == isPressed /\ ~isJustPressed

\* justReleased(): isReleased() && !_isJustReleased
JustReleasedRet == isReleased /\ ~isJustReleased

\* (millis() - _timeDouble) < _doubleDelay, in justClicked()
ClickWindow == Elapsed(timeDouble) < doubleDelay

\* justClicked() without its window and latch tests
JustClickedUngated == JustReleasedRet

\* justClicked()
JustClickedRet == ~(ClickWindow \/ (longClick \/ doubleClick)) /\ JustReleasedRet

\* justLongClicked() testing the level itself, not justReleased()
JustLongClickedUnguarded == longClick /\ isReleased

\* justLongClicked()
JustLongClickedRet == longClick /\ JustReleasedRet

\* justDoubleClicked()
JustDoubleClickedRet == doubleClick /\ JustReleasedRet

\* justPressed() forgetting to set its guard
PressedGuardLost == FALSE

\* the guard justPressed() leaves behind when it returns true
PressedGuard == TRUE

\* the guard justReleased() leaves behind when it returns true
ReleasedGuard == TRUE

JustPressed ==
    IF JustPressedRet
    THEN /\ isJustPressed' = PressedGuard
         /\ pressFires' = Once(pressFires)
         /\ UNCHANGED <<invert, state, pState, now, prev, longState, longClick,
                        doubleClick, isJustReleased, time, timeDouble, delays, begun,
                        clock, sinceFlip, sinceRelease, relKind, relDouble, relLong,
                        relFresh, relFires, relBy, longCount, latchLevel, accepted>>
    ELSE UNCHANGED vars

\* what a true return of justReleased() does, in a call of the accessor named by
ReleasedFires(by) ==
    /\ isJustReleased' = ReleasedGuard
    /\ relFires' = Once(relFires)
    /\ relBy' = by
    /\ relFresh' = FALSE
    /\ UNCHANGED <<invert, state, pState, now, prev, longState, isJustPressed,
                   time, timeDouble, delays, begun, clock,
                   sinceFlip, sinceRelease, relKind, relDouble, relLong,
                   pressFires, longCount, latchLevel, accepted>>

JustReleased ==
    IF JustReleasedRet
    THEN ReleasedFires("justReleased") /\ UNCHANGED <<longClick, doubleClick>>
    ELSE UNCHANGED vars

JustClicked ==
    IF JustClickedRet
    THEN ReleasedFires("justClicked") /\ UNCHANGED <<longClick, doubleClick>>
    ELSE UNCHANGED vars

JustLongClicked ==
    IF JustLongClickedRet
    THEN ReleasedFires("justLongClicked") /\ longClick' = FALSE /\ UNCHANGED doubleClick
    ELSE UNCHANGED vars

JustDoubleClicked ==
    IF JustDoubleClickedRet
    THEN ReleasedFires("justDoubleClicked") /\ doubleClick' = FALSE /\ UNCHANGED longClick
    ELSE UNCHANGED vars

Next ==
    \/ Tick /\ UNCHANGED gvars
    \/ \E mode \in Modes : Begin(mode) /\ UNCHANGED gvars
    \/ \E d \in DebounceValues : SetDebounceDelay(d) /\ UNCHANGED gvars
    \/ \E d \in LongValues : SetLongDelay(d) /\ UNCHANGED gvars
    \/ \E d \in DoubleValues : SetDoubleDelay(d) /\ UNCHANGED gvars
    \/ begun /\ (\E r \in BOOLEAN : Update(r)) /\ UNCHANGED gvars
    \/ begun /\ JustPressed /\ UNCHANGED gvars
    \/ begun /\ JustReleased /\ UNCHANGED gvars
    \/ begun /\ JustClicked /\ UNCHANGED gvars
    \/ begun /\ JustLongClicked /\ UNCHANGED gvars
    \/ begun /\ JustDoubleClicked /\ UNCHANGED gvars

Spec == Init /\ [][Next]_vars

(***************************************************************************)
(* PushButtonGroup.  buttons is the pointer: NULL, a block realloc() gave, *)
(* or a block that has been released ("freed": the pointer dangles).       *)
(* table is the content of the block, one element per slot of the size of  *)
(* a pointer.  add() and remove() ask realloc() for sizeof(PushButton)     *)
(* bytes per member, not the size of a pointer: by the file's own figures, *)
(* 19 bytes for a button and 2 for a reference, 9 slots per member.        *)
(* A slot nothing has written holds Junk.                                  *)
(***************************************************************************)
SlotsPerButton == 9
MaxGroup == 3

\* the buttons of the sketch
Refs == {"b1", "b2"}
Junk == "junk"

\* realloc()'s outcome when it returns a block: the same block, another block
\* with the old one left as it was, another block with the old one overwritten
Moves == {"same", "moved", "reused"}

\* what the members' update() return in one update() of the group, by slot
Results == [1 .. MaxGroup -> BOOLEAN]

\* the slots a block of sizeof(PushButton) * n bytes holds
Capacity(n) == n * SlotsPerButton

\* the block realloc(buttons, sizeof(PushButton) * n) returns: the old content
\* as far as both blocks go, the rest unwritten
Resized(n) ==
    [i \in 1 .. Capacity(n) |->
        IF buttons # "NULL" /\ i <= Len(table) THEN table[i] ELSE Junk]

\* buttons[i - 1] read through the pointer as it is (slots count from 1 here)
Slot(i) ==
    IF buttons = "block" /\ i >= 1 /\ i <= Len(table) THEN table[i] ELSE Junk

\* buttons[i - 1] read in remove() after realloc() has returned a block
SlotAfterRealloc(i, move) ==
    IF move = "reused" THEN Junk
    ELSE IF buttons # "NULL" /\ i >= 1 /\ i <= Len(table) THEN table[i]
    ELSE Junk

\* the group is as a sequence of add() calls leaves it: buttonsSize written slots
WellFormed ==
    /\ buttonsSize >= 0
    /\ buttonsSize > 0 =>
           /\ buttons = "block"
           /\ buttonsSize <= Len(table)
           /\ \A i \in 1 .. buttonsSize : table[i] \in Refs

\* the members, in the order of their slots
Members == [i \in 1 .. buttonsSize |-> Slot(i)]

\* how many times the sequence s holds the reference b
Count(b, s) == Cardinality({i \in DOMAIN s : s[i] = b})

\* add(button), with ref the argument: buttonsSize++, then realloc(); ok is whether realloc() returns
\* a block.  With buttonsSize at -1 the request is for 0 bytes: realloc()
\* either releases the block and returns NULL, or returns a block with no
\* slot and the write goes to buttons[-1].
Add(ref, ok) ==
    LET n == buttonsSize + 1 IN
    /\ alive
    /\ buttonsSize < MaxGroup
    /\ buttonsSize' = n
    /\ IF n = 0
       THEN /\ buttons' = IF ok THEN "block"
                          ELSE IF buttons = "NULL" THEN "NULL" ELSE "freed"
            /\ table' = IF ok THEN << >> ELSE table
            /\ wild' = (wild \/ ok \/ buttons = "freed")
       ELSE /\ buttons' = IF ok THEN "block" ELSE buttons
            /\ table' = IF ok THEN [Resized(n) EXCEPT ![n] = ref] ELSE table
            /\ wild' = (wild \/ buttons = "freed")
    /\ polled' = << >> /\ results' = << >> /\ groupRet' = FALSE
    /\ UNCHANGED alive

\* the copy loop of remove(): for(i = 0; i < top; i++), with tmp the new block
\* and src what buttons[i] reads
RECURSIVE RemoveLoop(_, _, _, _, _, _)
RemoveLoop(i, count, tmp, src, ref, top) ==
    IF i >= top THEN tmp
    ELSE IF src[i + 1] = ref
         THEN RemoveLoop(i + 1, count, tmp, src, ref, top)
         ELSE RemoveLoop(i + 1, count + 1,
                         [tmp EXCEPT ![count + 1] = src[i + 1]], src, ref, top)

\* remove(button), with ref the argument: buttonsSize--; at 0 delete(buttons) and return; otherwise
\* realloc(), the copy loop and buttons = tmp.  A negative buttonsSize makes
\* the byte count wrap to the top of size_t, which realloc() refuses.
Remove(ref, ok, move) ==
    LET n == buttonsSize - 1
        top == n + 1
        src == [i \in 1 .. top |-> SlotAfterRealloc(i, move)]
    IN
    /\ alive
    /\ buttonsSize >= 0
    /\ buttonsSize' = n
    /\ IF n = 0
       THEN /\ buttons' = IF buttons = "NULL" THEN "NULL" ELSE "freed"
            /\ table' = table
            /\ wild' = (wild \/ buttons = "freed")
       ELSE IF n < 0 \/ ~ok
       THEN /\ UNCHANGED <<buttons, table>>
            /\ wild' = (wild \/ buttons = "freed")
       ELSE /\ buttons' = "block"
            /\ table' = RemoveLoop(0, 0, Resized(n), src, ref, top)
            /\ wild' = (wild \/ buttons # "block" \/ move # "same"
                             \/ \E i \in 1 .. top : src[i] = Junk)
    /\ polled' = << >> /\ results' = << >> /\ groupRet' = FALSE
    /\ UNCHANGED alive

\* the loop of update() with a return at the first member that returns true
RECURSIVE PollLoopShortCircuit(_, _, _, _, _)
PollLoopShortCircuit(i, st, calls, rets, res) ==
    IF i >= buttonsSize \/ st THEN <<st, calls, rets>>
    ELSE PollLoopShortCircuit(i + 1, st \/ res[i + 1], Append(calls, Slot(i + 1)),
                              Append(rets, res[i + 1]), res)

\* the loop of update(): for(i = 0; i < buttonsSize; i++) with
\* if(buttons[i]->update()) state = true; res[i + 1] is what the call returns
RECURSIVE PollLoop(_, _, _, _, _)
PollLoop(i, st, calls, rets, res) ==
    IF i >= buttonsSize THEN <<st, calls, rets>>
    ELSE PollLoop(i + 1, st \/ res[i + 1], Append(calls, Slot(i + 1)),
                  Append(rets, res[i + 1]), res)

\* update() of the group
GroupUpdate(res) ==
    LET out == PollLoop(0, FALSE, << >>, << >>, res) IN
    /\ alive
    /\ groupRet' = out[1]
    /\ polled' = out[2]
    /\ results' = out[3]
    /\ wild' = (wild \/ \E i \in 1 .. buttonsSize : Slot(i) = Junk)
    /\ UNCHANGED group

\* ~PushButtonGroup(): free(buttons)
Destroy ==
    /\ alive
    /\ alive' = FALSE
    /\ buttons' = IF buttons = "NULL" THEN "NULL" ELSE "freed"
    /\ wild' = (wild \/ buttons = "freed")
    /\ UNCHANGED <<table, buttonsSize, polled, results, groupRet>>

\* the group alone: the buttons are left as constructed
InitGroup == Init /\ clock = 0 /\ timeDouble = 0 /\ ~doubleClick

NextGroup ==
    \/ \E b \in Refs, ok \in BOOLEAN : Add(b, ok) /\ UNCHANGED vars
    \/ \E b \in Refs, ok \in BOOLEAN, move \in Moves :
           Remove(b, ok, move) /\ UNCHANGED vars
    \/ \E res \in Results : GroupUpdate(res) /\ UNCHANGED vars
    \/ Destroy /\ UNCHANGED vars

SpecGroup == InitGroup /\ [][NextGroup]_<<vars, gvars>>

(***************************************************************************)
(* The claims.  begin() starts the button afresh: what is said of a hold,  *)
(* a press or a release is said of the calls since the last begin().       *)
(***************************************************************************)

\* C1: update() changes the debounced state only in a call that samples no
\* raw change and that comes strictly more than debounceDelay ms (of true
\* elapsed time) after the last sampled raw change.
C1_AcceptOnlyAfterStableWindow ==
    [][\A r \in BOOLEAN :
          (begun /\ state' # state /\ Update(r))
              => (~RawChanged(r) /\ sinceFlip > debounceDelay)]_vars

\* C1 witness: the first press was accepted at the earliest instant, one
\* millisecond after the debounce delay.
C1_Witness ==
    /\ accepted /\ isPressed /\ relKind = "none"
    /\ now = state /\ sinceFlip = debounceDelay + 1

\* C2: between two accepted transitions justPressed() returns true at most
\* once, and only while the accepted level is pressed; justReleased() (called
\* directly or by a gesture accessor) likewise, while it is released.
C2_OneShotPerTransition ==
    /\ [](pressFires <= 1 /\ relFires <= 1)
    /\ [](pressFires = 1 => ~JustPressedRet)
    /\ [][(pressFires' > pressFires => isPressed)
           /\ (relFires' > relFires => isReleased)]_vars

\* C2 witness: justPressed() has returned true for the current press and now
\* returns false.
C2_Witness ==
    accepted /\ isPressed /\ pressFires = 1 /\ isJustPressed /\ ~JustPressedRet

\* C3: after begin(), for either polarity, isPressed() is the negation of
\* isReleased().
C3_PressedIsNotReleased == begun => (isPressed = ~isReleased)

\* C3 witness: an inverted (pull-up) button accepted as pressed.
C3_Witness == begun /\ invert /\ accepted /\ isPressed /\ ~isReleased

\* an update() call in which a release is accepted that is not the first
SecondRelease(r) ==
    begun /\ UpdateAccept(r) /\ Xor(~r, invert) /\ relKind # "none"

\* a justDoubleClicked() call that returns true
DoubleClickFires == begun /\ JustDoubleClickedRet /\ JustDoubleClicked

\* C4 as stated: the acceptance of a release that is not the first latches
\* doubleClick exactly when less than doubleDelay ms of true elapsed time
\* separate it from the previous accepted release.
C4_Original ==
    [][\A r \in BOOLEAN :
          SecondRelease(r) => (doubleClick' <=> sinceRelease < doubleDelay)]_vars

\* C4 amended: a gap under doubleDelay latches doubleClick and
\* justDoubleClicked() then returns true, once, while the release is neither
\* consumed nor followed by a press; a gap of doubleDelay or more that is
\* shorter than one period of the millisecond counter clears doubleClick and
\* justDoubleClicked() returns false.
C4_DoubleClickWithinPeriod ==
    /\ [][\A r \in BOOLEAN :
             SecondRelease(r) =>
                 /\ sinceRelease < doubleDelay => doubleClick'
                 /\ (doubleDelay <= sinceRelease /\ sinceRelease < MaxElapsed)
                        => ~doubleClick']_vars
    /\ []((relFresh /\ relKind = "short") => JustDoubleClickedRet)
    /\ [](relKind = "long" => ~JustDoubleClickedRet)
    /\ [][DoubleClickFires => (relFresh /\ ~relFresh' /\ ~JustDoubleClickedRet')]_vars

\* C4 witness: a release accepted less than doubleDelay ms after the previous
\* one, consumed by justDoubleClicked(), which cleared the latch.
C4_Witness ==
    /\ relKind = "short" /\ relDouble /\ relBy = "justDoubleClicked"
    /\ relFires = 1 /\ ~doubleClick /\ ~JustDoubleClickedRet

\* a justClicked() call that returns true
ClickFires == begun /\ JustClickedRet /\ JustClicked

\* C5: justClicked() returns true only for an accepted release that is at
\* least doubleDelay ms old (true elapsed time), whose press latched no long
\* click and whose acceptance latched no double click.
C5_ClickOutsideWindowAndGestures ==
    [][ClickFires =>
          /\ relKind \in {"first", "short", "long", "wrapped"}
          /\ sinceRelease >= doubleDelay
          /\ ~relLong /\ ~relDouble]_vars

\* C5 witness: justClicked() has returned true for a release.
C5_Witness ==
    /\ relBy = "justClicked" /\ relFires = 1 /\ isReleased
    /\ sinceRelease >= doubleDelay /\ ~relLong /\ ~relDouble

\* C6 as stated: the first release accepted since construction latches no
\* double click, justDoubleClicked() returns false for it, and justClicked()
\* returns true for it once doubleDelay ms have passed, if it was not long.
C6_Original ==
    (relKind = "first" /\ relFresh) =>
        /\ ~doubleClick
        /\ ~JustDoubleClickedRet
        /\ (sinceRelease >= doubleDelay /\ sinceRelease < MaxElapsed /\ ~relLong)
               => JustClickedRet

\* a call of justReleased(), justClicked(), justLongClicked() or
\* justDoubleClicked() returns true
ReleaseFires == relFires' > relFires

\* C7: for one accepted release at most one call among justReleased(),
\* justClicked(), justLongClicked() and justDoubleClicked() returns true, and
\* after it all four return false.
C7_OneAccessorPerRelease ==
    /\ [](relFires <= 1)
    /\ [](relFires = 1 =>
             /\ ~JustReleasedRet /\ ~JustClickedRet
             /\ ~JustLongClickedRet /\ ~JustDoubleClickedRet)
    /\ [][ReleaseFires => (relFresh /\ relFires = 0 /\ relFires' = 1)]_vars

\* C7 witness: a long click consumed by justLongClicked().
C7_Witness ==
    /\ relBy = "justLongClicked" /\ relFires = 1 /\ relLong
    /\ isReleased /\ isJustReleased

\* C8: longState, once latched, holds for the level it was latched on until
\* update() accepts the next transition (or begin() starts afresh); update()
\* latches it at most once per hold.
C8_LongStateLatchedOnce ==
    /\ [](longCount <= 1)
    /\ [](longState =>
             /\ longCount = 1 /\ latchLevel = state
             /\ IF Xor(latchLevel, invert) THEN isLongPressed ELSE isLongReleased)
    /\ [][(longState /\ ~longState') =>
              \/ \E r \in BOOLEAN : UpdateAccept(r)
              \/ \E mode \in Modes : Begin(mode)]_vars

\* C8 witness: a long press is latched and a raw change has been sampled
\* since, without an accepted transition.
C8_Witness ==
    longState /\ isLongPressed /\ longCount = 1 /\ now # state /\ sinceFlip = 0

\* the fields update() leaves alone when it returns false
Untouched ==
    UNCHANGED <<state, pState, longState, longClick, doubleClick, timeDouble,
                isJustPressed, isJustReleased>>

\* C9: update() returns true exactly when the debounced state changed or
\* longState went from false to true in the call; when it returns false the
\* debounced state, the latches, timeDouble and the guards are unchanged.
C9_UpdateReturnsTrueIffChange ==
    [][\A r \in BOOLEAN :
          (begun /\ button' # button /\ now' = r /\ Update(r)) =>
              IF UpdateReturn(UpdateBranch(r))
              THEN state' # state \/ (~longState /\ longState')
              ELSE state' = state /\ ~(~longState /\ longState') /\ Untouched]_vars

\* C9 witness: after an accepted release and a long latch (two true returns)
\* a call sampled a raw change and returned false.
C9_Witness ==
    accepted /\ isLongReleased /\ now # prev /\ sinceFlip = 0 /\ time = clock

\* C10: from begin() until update() accepts a transition, isPressed() is
\* false and every one-shot accessor returns false.
C10_NothingFiresAfterBegin ==
    (begun /\ ~accepted) =>
        /\ ~isPressed
        /\ ~JustPressedRet /\ ~JustReleasedRet /\ ~JustClickedRet
        /\ ~JustLongClickedRet /\ ~JustDoubleClickedRet

\* C10 witness: begin() called again, with inverted polarity, on a button
\* whose last release latched a double click that nobody consumed.
C10_Witness ==
    begun /\ ~accepted /\ invert /\ doubleClick /\ relKind = "over" /\ relFires = 0

(***************************************************************************)
(* The claims about PushButtonGroup, under SpecGroup.                      *)
(***************************************************************************)

\* a call of add() or remove() in which realloc() is asked for a block of one
\* member or more and returns NULL
ReallocFails ==
    \/ \E b \in Refs : buttonsSize >= 0 /\ Add(b, FALSE)
    \/ \E b \in Refs, move \in Moves : buttonsSize > 1 /\ Remove(b, FALSE, move)

\* C11 as stated: a call of add() or remove() in which the reallocation fails
\* leaves buttonsSize and every stored reference as they were before the call.
C11_Original ==
    [][ReallocFails => UNCHANGED <<buttonsSize, buttons, table>>]_gvars

\* a call of remove() with a reference that no slot of the group holds
RemoveAbsent ==
    \E b \in Refs, ok \in BOOLEAN, move \in Moves :
        WellFormed /\ Count(b, Members) = 0 /\ Remove(b, ok, move)

\* C12 as stated: remove(ref) on a group that does not hold ref, an empty
\* group included, leaves buttonsSize and the stored references unchanged.
C12_Original ==
    [][RemoveAbsent => (buttonsSize' = buttonsSize /\ Members' = Members)]_gvars

\* a call of remove() in which realloc() shrinks the block where it is, on a
\* group that holds the reference two times or more
RemoveDuplicate(b) ==
    /\ WellFormed /\ Count(b, Members) >= 2
    /\ Remove(b, TRUE, "same")

\* C13 as stated: a successful remove(ref) on a group that holds ref k >= 2
\* times leaves k - 1 occurrences of ref and every other member, and all
\* buttonsSize slots hold references that were added.
C13_Original ==
    [][\A b \in Refs :
          RemoveDuplicate(b) =>
              /\ Count(b, Members') = Count(b, Members) - 1
              /\ \A o \in Refs \ {b} : Count(o, Members') = Count(o, Members)
              /\ \A i \in 1 .. buttonsSize' : Members'[i] \in Refs]_gvars

\* C14: update() of a group calls update() once on the reference of every
\* slot, in order, also after a member has returned true, and returns true
\* exactly when one of these calls returned true; on an empty group it calls
\* nothing and returns false.  (A member is a slot of a well-formed group: a
\* button added twice is polled twice.)
C14_PollsEveryMember ==
    [][\A res \in Results :
          (WellFormed /\ GroupUpdate(res)) =>
              /\ polled' = Members
              /\ results' = [i \in 1 .. buttonsSize |-> res[i]]
              /\ groupRet' = (\E i \in 1 .. buttonsSize : res[i])
              /\ buttonsSize = 0 => ~groupRet']_gvars

\* C14 witness: update() polled three members although the first returned
\* true, and returned true.
C14_Witness ==
    /\ WellFormed /\ buttonsSize = 3 /\ polled = Members
    /\ results = <<TRUE, FALSE, FALSE>> /\ groupRet

\* C17 as stated: after any sequence of add() and remove() calls, failed ones
\* included, buttonsSize is not negative and each of the buttonsSize slots
\* update() reads is a written slot of the table that holds an added reference.
C17_Original ==
    /\ buttonsSize >= 0
    /\ \A i \in 1 .. buttonsSize : Slot(i) \in Refs

\* C18 as stated: a group whose members have all been removed holds no
\* reference to released storage, as a new group, so that no later add(),
\* remove() or destruction hands released storage to realloc() or free().
C18_Original == alive => buttons # "freed"

(***************************************************************************)
(* The claims about time, under Spec.                                      *)
(***************************************************************************)

\* C15: while less than one period of the counter has passed since the stored
\* instant, each elapsed-time test gives the result the true elapsed time
\* gives, whether or not the counter has wrapped in between: the debounce and
\* long tests against the time since the last sampled raw change, the
\* double-click gap and the window of justClicked() against the time since
\* the last accepted release.
C15_WrapSafeTests ==
    /\ sinceFlip < MaxElapsed =>
           /\ DebounceExpired <=> sinceFlip > debounceDelay
           /\ LongCond <=> (~longState /\ sinceFlip > longDelay)
    /\ (relKind # "none" /\ sinceRelease < MaxElapsed) =>
           /\ DoubleGap <=> sinceRelease < doubleDelay
           /\ ClickWindow <=> sinceRelease < doubleDelay

\* C15 witness: the counter has wrapped since both stored instants; the
\* debounce test passes and the window of justClicked() is over.
C15_Witness ==
    /\ begun /\ clock < time /\ sinceFlip < MaxElapsed /\ DebounceExpired
    /\ relKind # "none" /\ clock < timeDouble /\ sinceRelease < MaxElapsed
    /\ ~ClickWindow

\* the level held is a release update() accepted: the last accepted transition
\* is that release, sinceRelease ms ago
HeldRelease == relKind \in {"first", "short", "long", "wrapped"}

\* C16 as stated, for a held release: update() latches longState only when
\* more than longDelay ms have passed since the last accepted transition.
C16_Original ==
    [][\A r \in BOOLEAN :
          (begun /\ HeldRelease /\ UpdateLong(r)) => sinceRelease > longDelay]_vars

\* C16 amended: update() latches longState only when more than longDelay ms
\* have passed since the last raw change it sampled (since construction if it
\* sampled none); every sampled raw change starts that time again.
C16_LongFromLastRawChange ==
    /\ [][\A r \in BOOLEAN : (begun /\ UpdateLong(r)) => sinceFlip > longDelay]_vars
    /\ [][\A r \in BOOLEAN :
             (begun /\ RawChanged(r) /\ Update(r)) => ~LongCond']_vars

\* C16 witness: a long release latched longDelay ms or less after the release
\* was accepted, more than longDelay ms after the raw change was sampled.
C16_Witness ==
    /\ HeldRelease /\ isLongReleased /\ longCount = 1
    /\ sinceRelease <= longDelay /\ sinceFlip > longDelay

\* update() has sampled a raw level that differs from the debounced state, and
\* the raw level is still that one: the next call samples no change
Pending == begun /\ state # now

\* C19 as stated: with the raw level held away from the debounced state, an
\* update() call made debounceDelay ms or less after the call that sampled the
\* change does not accept, and a call made later than that accepts the
\* transition and returns true.
C19_Original ==
    Pending =>
        IF sinceFlip > debounceDelay
        THEN UpdateBranch(now) = "accept" /\ UpdateReturn(UpdateBranch(now))
        ELSE UpdateBranch(now) # "accept"

\* C19 amended: as stated for a call made less than one period of the
\* millisecond counter after the call that sampled the change.
C19_AcceptAfterDebounce ==
    Pending =>
        /\ sinceFlip <= debounceDelay => UpdateBranch(now) # "accept"
        /\ (sinceFlip > debounceDelay /\ sinceFlip < MaxElapsed) =>
               (UpdateBranch(now) = "accept" /\ UpdateReturn(UpdateBranch(now)))

\* C19 witness: a raw change sampled debounceDelay + 1 ms ago with the default
\* delay, the counter having wrapped since: the next call accepts.
C19_Witness ==
    /\ Pending /\ debounceDelay = DebounceDefault /\ clock < time
    /\ sinceFlip = debounceDelay + 1 /\ UpdateBranch(now) = "accept"

\* an accepted release that nothing has consumed and no press has followed,
\* whose press latched no long click and which did not come within
\* doubleDelay ms of the previous accepted release
PlainRelease == relFresh /\ ~relLong /\ relKind \in {"first", "long", "wrapped"}

\* C20 as stated: for such a release justClicked() returns false (and so
\* consumes nothing) while less than doubleDelay ms have passed since the
\* acceptance, and returns true in the first call made after that.
C20_Original ==
    PlainRelease =>
        IF sinceRelease >= doubleDelay THEN JustClickedRet ELSE ~JustClickedRet

====
